---------------------------- MODULE Spec2Model ----------------------------
(***************************************************************************)
(* A model of MKS.py: the Dimensions tally over the seven SI base          *)
(* dimensions, the Measurement wrapper with its operators, and define().   *)
(*                                                                         *)
(* Strings that the code indexes or iterates (dimension notations and the  *)
(* canonical form) are sequences of one-character strings.  Strings that   *)
(* are only built and printed (the pretty form) are TLA+ strings.          *)
(*                                                                         *)
(* Python numbers are records [t, m, e]: an int is [t |-> "int", m |-> v,  *)
(* e |-> 0]; a float is [t |-> "float", m, e] with value m * 2^e, m odd    *)
(* (or 0), and at most MantBits significant bits, so that every float      *)
(* operation rounds to nearest-even as IEEE 754 does (53 bits in CPython,  *)
(* MantBits here).  The exponent range is not limited, and the sign of a   *)
(* float zero is not kept.                                                 *)
(***************************************************************************)
EXTENDS Integers, Sequences, FiniteSets, TLC

(***************************************************************************)
(* Bounds of the model.                                                    *)
(***************************************************************************)
MantBits == 4
MaxOps == 2
MaxInt == 16
MaxDegree == 3

(***************************************************************************)
(* Python numbers.                                                         *)
(***************************************************************************)
Abs(i) == IF i < 0 THEN -i ELSE i

Sgn(i) == IF i < 0 THEN -1 ELSE 1

Min(i, j) == IF i < j THEN i ELSE j

RECURSIVE BitLen(_)
BitLen(a) == IF a = 0 THEN 0 ELSE 1 + BitLen(a \div 2)

RECURSIVE ISqrt(_)
ISqrt(n) ==
    IF n < 2 THEN n
    ELSE LET s == 2 * ISqrt(n \div 4)
         IN  IF (s + 1) * (s + 1) <= n THEN s + 1 ELSE s

RECURSIVE IPow(_, _)
IPow(b, n) == IF n = 0 THEN 1 ELSE b * IPow(b, n - 1)

PyInt(v) == [t |-> "int", m |-> v, e |-> 0]

RECURSIVE PyFloat(_, _)
PyFloat(m, e) ==
    IF m = 0 THEN [t |-> "float", m |-> 0, e |-> 0]
    ELSE IF m % 2 = 0 THEN PyFloat(m \div 2, e + 1)
    ELSE [t |-> "float", m |-> m, e |-> e]

\* The float nearest to m * 2^e, ties to the even mantissa.
Round(m, e) ==
    LET a == Abs(m)
        k == BitLen(a) - MantBits
    IN  IF k <= 0 THEN PyFloat(m, e)
        ELSE LET q    == a \div (2 ^ k)
                 r    == a % (2 ^ k)
                 half == 2 ^ (k - 1)
                 up   == r > half \/ (r = half /\ q % 2 = 1)
             IN  PyFloat(Sgn(m) * (q + IF up THEN 1 ELSE 0), e + k)

\* The float nearest to (n / d) * 2^e, for d # 0.
Quot(n, d, e) ==
    LET s      == MantBits + 2 + BitLen(Abs(d))
        num    == Abs(n) * (2 ^ s)
        q      == num \div Abs(d)
        sticky == IF num % Abs(d) = 0 THEN 0 ELSE 1
    IN  Round(Sgn(n) * Sgn(d) * (2 * q + sticky), e - s - 1)

\* The float nearest to sqrt(m * 2^e), for m > 0.
Sqrt(m, e) ==
    LET m0     == IF e % 2 = 0 THEN m ELSE 2 * m
        e0     == IF e % 2 = 0 THEN e ELSE e - 1
        s      == MantBits + 2
        num    == m0 * (4 ^ s)
        r      == ISqrt(num)
        sticky == IF r * r = num THEN 0 ELSE 1
    IN  Round(2 * r + sticky, (e0 \div 2) - s - 1)

IsNumber(v) == v.t \in {"int", "float"}

ToFloat(a) == IF a.t = "float" THEN a ELSE Round(a.m, 0)

Exc(name, args) == [t |-> "exc", name |-> name, args |-> args]

IsExc(v) == v.t = "exc"

NoExc == [t |-> "none"]

Bool(b) == [t |-> "bool", v |-> b]

\* The exact comparison Python makes between two numbers, int or float.
NumLt(a, b) ==
    LET e == Min(a.e, b.e)
    IN  a.m * (2 ^ (a.e - e)) < b.m * (2 ^ (b.e - e))

NumEq(a, b) ==
    LET e == Min(a.e, b.e)
    IN  a.m * (2 ^ (a.e - e)) = b.m * (2 ^ (b.e - e))

NumCmp(rel, a, b) ==
    CASE rel = "eq" -> NumEq(a, b)
      [] rel = "lt" -> NumLt(a, b)
      [] rel = "le" -> NumLt(a, b) \/ NumEq(a, b)
      [] rel = "gt" -> NumLt(b, a)
      [] rel = "ge" -> NumLt(b, a) \/ NumEq(a, b)

\* float * float
FloatMul(fa, fb) == Round(fa.m * fb.m, fa.e + fb.e)

\* a * b
NumMul(a, b) ==
    IF a.t = "int" /\ b.t = "int" THEN PyInt(a.m * b.m)
    ELSE FloatMul(ToFloat(a), ToFloat(b))

\* float + float
FloatAdd(fa, fb) ==
    LET e == Min(fa.e, fb.e)
    IN  Round(fa.m * (2 ^ (fa.e - e)) + fb.m * (2 ^ (fb.e - e)), e)

\* a + b
NumAdd(a, b) ==
    IF a.t = "int" /\ b.t = "int" THEN PyInt(a.m + b.m)
    ELSE FloatAdd(ToFloat(a), ToFloat(b))

\* a - b
NumSub(a, b) ==
    IF a.t = "int" /\ b.t = "int" THEN PyInt(a.m - b.m)
    ELSE FloatAdd(ToFloat(a), [ToFloat(b) EXCEPT !.m = -ToFloat(b).m])

\* a / b with true division (from __future__ import division), b # 0
NumDiv(a, b) ==
    IF a.t = "int" /\ b.t = "int" THEN Quot(a.m, b.m, 0)
    ELSE Quot(ToFloat(a).m, ToFloat(b).m, ToFloat(a).e - ToFloat(b).e)

\* abs(a)
NumAbs(a) == [a EXCEPT !.m = Abs(a.m)]

\* Whether p is the float 0.5.
IsHalf(p) == p.t = "float" /\ p.m = 1 /\ p.e = -1

\* float ** p, for p an int, or the float 0.5 with fa >= 0
FloatPow(fa, p) ==
    IF IsHalf(p)
    THEN IF fa.m = 0 THEN fa ELSE Sqrt(fa.m, fa.e)
    ELSE IF p.m >= 0 THEN Round(IPow(fa.m, p.m), fa.e * p.m)
    ELSE IF fa.m = 0 THEN Exc("ZeroDivisionError", <<>>)
    ELSE Quot(1, IPow(fa.m, -p.m), (-fa.e) * (-p.m))

\* a ** p, for p an int, or the float 0.5 with a >= 0
NumPow(a, p) ==
    IF a.t = "int" /\ p.t = "int" /\ p.m >= 0 THEN PyInt(IPow(a.m, p.m))
    ELSE FloatPow(ToFloat(a), p)

\* int(v): truncation toward zero
Trunc(a) ==
    IF a.e >= 0 THEN a.m * (2 ^ a.e)
    ELSE Sgn(a.m) * (Abs(a.m) \div (2 ^ (-a.e)))

(***************************************************************************)
(* Module tables.                                                          *)
(***************************************************************************)
\* BASE, in the order the dict literal lists (and so iterates) its keys.
Keys == <<"I", "J", "L", "M", "N", "O", "T">>

KeySet == {Keys[i] : i \in 1..Len(Keys)}

BASE == [I |-> "A", J |-> "cd", L |-> "m", M |-> "kg", N |-> "mol",
         O |-> "K", T |-> "s"]

DERIVED ==
    (<<"I","I","T","T","T","/","L","L","M">> :> "S") @@
    (<<"L","L","M","/","I","I","T","T","T">> :> "ohm") @@
    (<<"L","L","M","/","I","T","T","T">> :> "V") @@
    (<<"L","L","M","/","T","T","T">> :> "W") @@
    (<<"L","L","M","/","T","T">> :> "J") @@
    (<<"L","M","/","T","T">> :> "N") @@
    (<<"M","/","L","T","T">> :> "Pa") @@
    (<<"I","T">> :> "C")

\* The CONSTANTS table of the code: symbol -> (quantity, dimensions).  A
\* float literal is the float of MantBits bits nearest to it (each literal
\* is given here to 18 bits); 101325 is an int.
PhysicalConstants ==
    [atm |-> <<PyInt(101325), <<"M","/","L","T","T">> >>,
     R   |-> <<Round(136224, -14), <<"M","L","L","/","N","T","T","O">> >>,
     F   |-> <<Round(192971, -1), <<"I","T","/","N">> >>,
     Da  |-> <<Round(134719, -106), <<"M">> >>,
     cm  |-> <<Round(167772, -24), <<"L">> >>,
     mm  |-> <<Round(134218, -27), <<"L">> >>,
     um  |-> <<Round(137439, -37), <<"L">> >>,
     nm  |-> <<Round(140737, -47), <<"L">> >>,
     mA  |-> <<Round(134218, -27), <<"I">> >>]

reg == <<"0", "1", "2", "3", "4", "5", "6", "7", "8", "9", "-">>

\* Each "^c" stands for the one superscript glyph of c in the code's table.
sup == <<"^0", "^1", "^2", "^3", "^4", "^5", "^6", "^7", "^8", "^9", "^-">>

SUP == [c \in {reg[i] : i \in 1..Len(reg)} |->
            sup[CHOOSE i \in 1..Len(reg) : reg[i] = c]]

\* str(integer), as a sequence of characters
RECURSIVE Digits(_)
Digits(n) ==
    IF n < 10 THEN <<reg[n + 1]>>
    ELSE Digits(n \div 10) \o <<reg[(n % 10) + 1]>>

IntStr(i) == IF i < 0 THEN <<"-">> \o Digits(-i) ELSE Digits(i)

RECURSIVE Concat(_)
Concat(parts) == IF parts = <<>> THEN "" ELSE Head(parts) \o Concat(Tail(parts))

RECURSIVE Join(_, _)
Join(sep, parts) ==
    IF parts = <<>> THEN ""
    ELSE IF Len(parts) = 1 THEN parts[1]
    ELSE parts[1] \o sep \o Join(sep, Tail(parts))

superscript(integer) ==
    LET s == IntStr(integer)
    IN  Concat([i \in 1..Len(s) |-> SUP[s[i]]])

UnitError(L, R) == Exc("UnitError", <<L, R>>)

(***************************************************************************)
(* class Dimensions: a tally [KeySet -> Int].                              *)
(***************************************************************************)
RECURSIVE LStrip(_)
LStrip(s) == IF s # <<>> /\ Head(s) = "1" THEN LStrip(Tail(s)) ELSE s

RECURSIVE RStrip(_)
RStrip(s) ==
    IF s # <<>> /\ s[Len(s)] = "1" THEN RStrip(SubSeq(s, 1, Len(s) - 1)) ELSE s

Count(s, c) == Cardinality({i \in 1..Len(s) : s[i] = c})

\* A parse that keeps the "1" placeholders: what ParseUndoesStr rules out.
StripNothing(string) == string

\* string.strip('1')
Strip(string) == RStrip(LStrip(string))

\* string.split('/') of a string with at most one "/": positive, negative
Split(s) ==
    IF Count(s, "/") = 0 THEN <<s, <<>> >>
    ELSE LET i == CHOOSE j \in 1..Len(s) : s[j] = "/"
         IN  <<SubSeq(s, 1, i - 1), SubSeq(s, i + 1, Len(s))>>

\* The KeyError of the first character that is no key of the tally.
FirstKeyError(chars) ==
    LET bad == {i \in 1..Len(chars) : chars[i] \notin KeySet}
    IN  IF bad = {} THEN NoExc
        ELSE Exc("KeyError", <<chars[CHOOSE i \in bad : \A j \in bad : i <= j]>>)

SplitError(s) ==
    IF Count(s, "/") > 1 THEN Exc("ValueError", <<>>)
    ELSE FirstKeyError(Split(s)[1] \o Split(s)[2])

\* The exception Dimensions(string) raises, or NoExc.
DimensionsError(string) == SplitError(Strip(string))

TallyOf(h) == [k \in KeySet |-> 0 + Count(h[1], k) - Count(h[2], k)]

\* Dimensions(string), when it raises nothing
Dimensions(string) == TallyOf(Split(Strip(string)))

\* Dimensions.__add__
DimAdd(self, other) == [k \in KeySet |-> 0 + self[k] + other[k]]

\* Dimensions.__mul__: the comparison v == int(v) is evaluated and dropped
DimMul(self, power) ==
    LET combination == DimAdd(Dimensions(<<>>), self)
    IN  [k \in KeySet |-> Trunc(NumMul(PyInt(combination[k]), power))]

RECURSIVE Rep(_, _)
Rep(k, i) == IF i <= 0 THEN <<>> ELSE <<k>> \o Rep(k, i - 1)

\* Whether the string (a sequence of characters) a sorts before b.
RECURSIVE StrLess(_, _)
StrLess(a, b) ==
    IF b = <<>> THEN FALSE
    ELSE IF a = <<>> THEN TRUE
    ELSE LET ia == CHOOSE i \in 1..Len(reg) + Len(Keys) :
                       (<<"/">> \o reg \o Keys)[i + 1] = Head(a)
             ib == CHOOSE i \in 1..Len(reg) + Len(Keys) :
                       (<<"/">> \o reg \o Keys)[i + 1] = Head(b)
         IN  IF Head(a) = Head(b) THEN StrLess(Tail(a), Tail(b)) ELSE ia < ib

\* ''.join(sorted(parts)), parts a set of distinct strings
RECURSIVE JoinSorted(_)
JoinSorted(parts) ==
    IF parts = {} THEN <<>>
    ELSE LET least == CHOOSE p \in parts : \A r \in parts \ {p} : StrLess(p, r)
         IN  least \o JoinSorted(parts \ {least})

\* top or '1'
OrOne(top) == IF top = <<>> THEN <<"1">> ELSE top

\* '/'.join([top, bottom]) if bottom else top
Frac(top, bottom) == IF bottom # <<>> THEN top \o <<"/">> \o bottom ELSE top

\* Dimensions.__str__
Str(self) ==
    Frac(OrOne(JoinSorted({Rep(k, self[k]) : k \in {j \in KeySet : self[j] > 0}})),
         JoinSorted({Rep(k, -self[k]) : k \in {j \in KeySet : self[j] < 0}}))

\* The keys left in dictionary order: what PrettyOrder rules out.
SortedByGetUnsorted(keys, self) == keys

\* sorted(self, key=self.get): a stable sort of the keys by exponent
RECURSIVE SortedByGet(_, _)
SortedByGet(keys, self) ==
    IF keys = <<>> THEN <<>>
    ELSE LET rest == SortedByGet(SubSeq(keys, 1, Len(keys) - 1), self)
             k    == keys[Len(keys)]
             n    == Cardinality({i \in 1..Len(rest) : self[rest[i]] <= self[k]})
         IN  SubSeq(rest, 1, n) \o <<k>> \o SubSeq(rest, n + 1, Len(rest))

PrettyTerm(k, exp) ==
    IF exp = 1 THEN BASE[k] ELSE BASE[k] \o superscript(exp)

\* The loop of pretty over the sorted keys: positive + negative[::-1]
PrettyTerms(order, self) ==
    LET pos == SelectSeq(order, LAMBDA k : self[k] > 0)
        neg == SelectSeq(order, LAMBDA k : self[k] < 0)
    IN  [i \in 1..Len(pos) |-> PrettyTerm(pos[i], self[pos[i]])] \o
        [i \in 1..Len(neg) |->
            PrettyTerm(neg[Len(neg) + 1 - i], self[neg[Len(neg) + 1 - i]])]

PrettyOf(str, self) ==
    IF str \in DOMAIN DERIVED THEN DERIVED[str]
    ELSE Join(".", PrettyTerms(SortedByGet(Keys, self), self))

\* Dimensions.pretty
Pretty(self) == PrettyOf(Str(self), self)

(***************************************************************************)
(* class Measurement: [t |-> "Measurement", quantity, dimensions].  Every  *)
(* operator returns a number, a Measurement, a Bool or the exception it    *)
(* raises.                                                                 *)
(***************************************************************************)
IsMeas(v) == v.t = "Measurement"

\* Measurement(quantity, dimensions): __new__ then __init__; dimstr is
\* str(dimensions), the argument itself when it is a notation string.
MeasurementInit(quantity, dimstr, err) ==
    IF IsMeas(quantity) THEN quantity
    ELSE IF IsExc(err) THEN err
    ELSE [t |-> "Measurement", quantity |-> quantity,
          dimensions |-> Dimensions(dimstr)]

Measurement(quantity, dimstr) ==
    IF dimstr = <<"1">> THEN quantity
    ELSE MeasurementInit(quantity, dimstr, DimensionsError(dimstr))

\* the units property
units(self) == Measurement(PyInt(1), Str(self.dimensions))

\* __rmul__
MeasRmul(self, other) ==
    Measurement(NumMul(self.quantity, other), Str(self.dimensions))

\* A product that keeps the dimensions of its left operand: what
\* MultiplyComposes rules out.
MeasMulKeepingDimensions(self, other) ==
    Measurement(NumMul(self.quantity,
                       IF IsMeas(other) THEN other.quantity ELSE other),
                Str(self.dimensions))

\* __mul__
MeasMul(self, other) ==
    IF IsMeas(other)
    THEN Measurement(NumMul(self.quantity, other.quantity),
                     Str(DimAdd(self.dimensions, other.dimensions)))
    ELSE Measurement(NumMul(self.quantity, other), Str(self.dimensions))

\* a * b as Python dispatches it
PyMul(a, b) ==
    IF IsMeas(a) THEN MeasMul(a, b)
    ELSE IF IsMeas(b) THEN MeasRmul(b, a)
    ELSE NumMul(a, b)

\* __pow__: "self.quantity is 1" holds of the int 1 only
Raised(q, dimensions) ==
    IF IsExc(q) THEN q ELSE Measurement(q, Str(dimensions))

MeasPow(self, power) ==
    Raised(IF self.quantity = PyInt(1) THEN PyInt(1)
           ELSE NumPow(self.quantity, power),
           DimMul(self.dimensions, power))

\* a ** p as Python dispatches it
PyPow(a, p) == IF IsMeas(a) THEN MeasPow(a, p) ELSE NumPow(a, p)

\* __truediv__ (and __div__)
TimesInverse(a, inv) == IF IsExc(inv) THEN inv ELSE PyMul(a, inv)

MeasTruediv(self, other) == TimesInverse(self, PyPow(other, PyInt(-1)))

\* __rtruediv__ (and __rdiv__)
MeasRtruediv(self, other) == TimesInverse(other, MeasPow(self, PyInt(-1)))

\* a / b as Python dispatches it
PyDiv(a, b) ==
    IF IsMeas(a) THEN MeasTruediv(a, b)
    ELSE IF IsMeas(b) THEN MeasRtruediv(b, a)
    ELSE IF b.m = 0 THEN Exc("ZeroDivisionError", <<>>)
    ELSE NumDiv(a, b)

\* A __call__ that hands back the payload of the quotient whether or not
\* units remain: what AssertUnitChecksDimensions rules out.
PayloadRegardless(out) ==
    IF IsExc(out) THEN out
    ELSE IF IsMeas(out) THEN out.quantity
    ELSE out

\* __call__: when the division leaves a Measurement the code prints a
\* message and calls exit(), which raises SystemExit
ExitUnlessBare(out) ==
    IF IsExc(out) THEN out
    ELSE IF IsMeas(out) THEN Exc("SystemExit", <<>>)
    ELSE out

MeasCall(self, other) == ExitUnlessBare(MeasTruediv(self, other))

\* __abs__
MeasAbs(self) == Measurement(NumAbs(self.quantity), Str(self.dimensions))

\* __neg__
MeasNeg(self) == MeasMul(self, PyInt(-1))

\* -o as Python dispatches it
PyNeg(o) == IF IsMeas(o) THEN MeasNeg(o) ELSE [o EXCEPT !.m = -o.m]

\* ( l + r ) * u, for l = x(o.units), r = o(o.units), u = o.units
SumTimes(l, r, u) ==
    IF IsExc(l) THEN l
    ELSE IF IsExc(r) THEN r
    ELSE PyMul(NumAdd(l, r), u)

AddIn(self, o, u) == SumTimes(MeasCall(self, u), MeasCall(o, u), u)

\* __add__
MeasAdd(self, o) ==
    IF IsMeas(o) THEN AddIn(self, o, units(o)) ELSE MeasCall(self, o)

\* __sub__
MeasSub(self, o) == MeasAdd(self, PyNeg(o))

\* A comparison with its sides exchanged: what CompareIsNumeric rules out.
CmpRatiosSwapped(rel, l, r) ==
    IF IsExc(l) THEN l
    ELSE IF IsExc(r) THEN r
    ELSE Bool(NumCmp(rel, r, l))

\* __eq__, __lt__, __le__, __gt__, __ge__
CmpRatios(rel, l, r) ==
    IF IsExc(l) THEN l
    ELSE IF IsExc(r) THEN r
    ELSE Bool(NumCmp(rel, l, r))

CmpIn(rel, self, o, u) == CmpRatios(rel, MeasCall(self, u), MeasCall(o, u))

MeasCmp(rel, self, o) ==
    IF ~IsMeas(o) THEN Exc("AttributeError", <<"units">>)
    ELSE CmpIn(rel, self, o, units(o))

(***************************************************************************)
(* define(namespace): a namespace is a function from symbols to values.    *)
(***************************************************************************)
\* list(BASE.items()) + list(DERIVED.items()), as (dimensions, symbol)
UnitItems ==
    << <<<<"I">>, "A">>, <<<<"J">>, "cd">>, <<<<"L">>, "m">>,
       <<<<"M">>, "kg">>, <<<<"N">>, "mol">>, <<<<"O">>, "K">>,
       <<<<"T">>, "s">>,
       <<<<"I","I","T","T","T","/","L","L","M">>, "S">>,
       <<<<"L","L","M","/","I","I","T","T","T">>, "ohm">>,
       <<<<"L","L","M","/","I","T","T","T">>, "V">>,
       <<<<"L","L","M","/","T","T","T">>, "W">>,
       <<<<"L","L","M","/","T","T">>, "J">>,
       <<<<"L","M","/","T","T">>, "N">>,
       <<<<"M","/","L","T","T">>, "Pa">>,
       <<<<"I","T">>, "C">> >>

UnitSymbols == {UnitItems[i][2] : i \in 1..Len(UnitItems)}

ConstantSymbols == DOMAIN PhysicalConstants

\* The symbols the first loop of define() finds bound already.
Collisions(namespace) ==
    {i \in 1..Len(UnitItems) : UnitItems[i][2] \in DOMAIN namespace}

\* The dict define() builds in its two loops.
DefineVariables ==
    [sym \in UnitSymbols \cup ConstantSymbols |->
        IF sym \in UnitSymbols
        THEN Measurement(PyInt(1),
                 UnitItems[CHOOSE i \in 1..Len(UnitItems) :
                               UnitItems[i][2] = sym][1])
        ELSE Measurement(PhysicalConstants[sym][1], PhysicalConstants[sym][2])]

\* The NameError of the first symbol found bound, or NoExc.
FirstNameError(found) ==
    IF found # {}
    THEN Exc("NameError",
             <<UnitItems[CHOOSE i \in found : \A j \in found : i <= j][2]>>)
    ELSE NoExc

\* The exception define(namespace) raises, or NoExc.
DefineError(namespace) == FirstNameError(Collisions(namespace))

\* namespace.update(variables)
Update(namespace, variables) ==
    [sym \in DOMAIN namespace \cup DOMAIN variables |->
        IF sym \in DOMAIN variables THEN variables[sym] ELSE namespace[sym]]

\* The namespace after define(namespace): updated unless it raised
Define(namespace) ==
    IF Collisions(namespace) # {} THEN namespace
    ELSE Update(namespace, DefineVariables)

EmptyNamespace == [sym \in {} |-> NoExc]

(***************************************************************************)
(* The state: the value user code holds (x), the caller's namespace, a     *)
(* Dimensions tally user code holds (dims), the operation that has just    *)
(* returned or raised, with its operands and its outcome (last), and the   *)
(* number of operations made so far (ops).  The operators are pure: an     *)
(* operation leaves its outcome in last, and user code then keeps the      *)
(* value returned (Keep, KeepTally) or drops the outcome (Drop).           *)
(***************************************************************************)
VARIABLES x, namespace, dims, last, ops

vars == <<x, namespace, dims, last, ops>>

NoArg == [t |-> "none"]

Text(s) == [t |-> "str", v |-> s]

Tally(d) == [t |-> "Dimensions", v |-> d]

Names(ns) == [t |-> "namespace", v |-> ns]

Op(name, a, b, res) == [name |-> name, a |-> a, b |-> b, res |-> res]

Idle == Op("idle", NoArg, NoArg, NoExc)

Defined == Define(EmptyNamespace)

\* The inputs of the operations.
StartSymbols == {"m", "s", "kg", "V", "J", "C", "cm"}

Numerics == {PyInt(-1), PyInt(0), PyInt(3)}

Operands ==
    {Defined["m"], Defined["s"], Defined["A"], Defined["J"], Defined["cm"],
     PyMul(PyInt(3), Defined["m"]), PyMul(PyInt(0), Defined["m"]),
     PyDiv(Defined["J"], Defined["s"]),
     Measurement(PyInt(3), <<"M", "/", "M">>)}

Powers == {PyInt(-1), PyInt(0), PyInt(2), PyFloat(1, -1)}

Payloads == {PyInt(5), PyInt(-2)}

Notations ==
    {<<>>, <<"1">>, <<"M", "/", "M">>, <<"L">>, <<"1", "/", "T">>,
     <<"M", "M", "/", "T", "T">>, <<"M", "/", "L", "/", "T">>, <<"X">>}

\* The right operands of +, -, the comparisons and the call.
Others == Operands \cup {PyInt(3)}

Relations == {"eq", "lt", "le", "gt", "ge"}

IsValue(v) == IsMeas(v) \/ IsNumber(v)

Payload(v) == IF IsMeas(v) THEN v.quantity ELSE v

\* Ints stay within the range that floats hold exactly.
Bounded(res) ==
    IsValue(res) /\ Payload(res).t = "int" => Abs(Payload(res).m) <= MaxInt

\* One operation of user code on the values it holds.
Step(name, a, b, res) ==
    /\ last = Idle
    /\ ops < MaxOps
    /\ Bounded(res)
    /\ ops' = ops + 1
    /\ last' = Op(name, a, b, res)
    /\ UNCHANGED <<x, namespace, dims>>

Init ==
    /\ namespace = Defined
    /\ x \in {namespace[sym] : sym \in StartSymbols}
    /\ dims = Dimensions(<<>>)
    /\ last = Idle
    /\ ops = 0

\* x * b, and b * x for a bare x
Multiply ==
    \E b \in Operands \cup Numerics :
        /\ IsMeas(x) \/ IsMeas(b)
        /\ Step("mul", x, b, PyMul(x, b))

\* k * x
LeftMultiply ==
    \E k \in Numerics : IsMeas(x) /\ Step("mul", k, x, PyMul(k, x))

\* x / b
Divide ==
    \E b \in Operands \cup Numerics :
        /\ IsMeas(x) \/ IsMeas(b)
        /\ Step("div", x, b, PyDiv(x, b))

\* k / x
LeftDivide ==
    \E k \in Numerics : IsMeas(x) /\ Step("div", k, x, PyDiv(k, x))

\* x ** p; a negative payload to the power 0.5 is a complex number
Power ==
    \E p \in Powers :
        /\ IsMeas(x)
        /\ IsHalf(p) => x.quantity.m >= 0
        /\ Step("pow", x, p, MeasPow(x, p))

\* abs(x)
Absolute == IsMeas(x) /\ Step("abs", x, NoArg, MeasAbs(x))

\* x + b
Add ==
    \E b \in Others :
        IsMeas(x) /\ Step("add", x, b, MeasAdd(x, b))

\* x - b
Subtract ==
    \E b \in Others :
        IsMeas(x) /\ Step("sub", x, b, MeasSub(x, b))

\* x == b, x < b, x <= b, x > b, x >= b
Compare ==
    \E rel \in Relations, b \in Others :
        IsMeas(x) /\ Step(rel, x, b, MeasCmp(rel, x, b))

\* x(b)
AssertUnit ==
    \E b \in Others :
        IsMeas(x) /\ Step("call", x, b, MeasCall(x, b))

\* Measurement(q, s) for a notation string s.  A construction reads nothing
\* of the state, so it is taken as the first operation only.
Construct ==
    \E q \in Payloads, s \in Notations :
        /\ ops = 0
        /\ Step("new", q, Text(s), Measurement(q, s))

\* Measurement(q, Dimensions(s))
ConstructFromDimensions ==
    \E q \in Payloads, s \in Notations :
        /\ ops = 0
        /\ ~IsExc(DimensionsError(s))
        /\ Step("new", q, Tally(Dimensions(s)),
                Measurement(q, Str(Dimensions(s))))

\* User code keeps the value returned.
Keep ==
    /\ last # Idle
    /\ IsValue(last.res)
    /\ x' = last.res
    /\ last' = Idle
    /\ UNCHANGED <<namespace, dims, ops>>

\* User code drops the value returned, or catches the exception raised.
Drop ==
    /\ last # Idle
    /\ last' = Idle
    /\ UNCHANGED <<x, namespace, dims, ops>>

Next ==
    \/ Multiply
    \/ LeftMultiply
    \/ Divide
    \/ LeftDivide
    \/ Power
    \/ Absolute
    \/ Add
    \/ Subtract
    \/ Compare
    \/ AssertUnit
    \/ Construct
    \/ ConstructFromDimensions
    \/ Keep
    \/ Drop

Spec == Init /\ [][Next]_vars

(***************************************************************************)
(* The Dimensions class on its own: user code parses notations, combines   *)
(* and scales the tally it holds, prints it and parses it back.            *)
(***************************************************************************)
Zero == [k \in KeySet |-> 0]

RECURSIVE SumAbs(_, _)
SumAbs(d, keys) ==
    IF keys = {} THEN 0
    ELSE LET k == CHOOSE j \in keys : TRUE
         IN  Abs(d[k]) + SumAbs(d, keys \ {k})

Degree(d) == SumAbs(d, KeySet)

\* The tallies the operations may produce: of bounded degree, or one of the
\* derived units of the table.
InBounds(d) == Degree(d) <= MaxDegree \/ Str(d) \in DOMAIN DERIVED

DimNotations ==
    Notations \cup DOMAIN DERIVED
      \cup {PhysicalConstants[c][2] : c \in DOMAIN PhysicalConstants}
      \cup {<<Keys[i]>> : i \in 1..Len(Keys)}
      \cup {<<"1", "/", "T", "T">>, <<"L", "L", "/", "L">>, <<"1", "1">>,
            <<"/">>, <<"M", "1", "M">>,
            <<"M", "M", "L", "/", "T", "T", "O">>}

CombineNotations == {<<Keys[i]>> : i \in 1..Len(Keys)} \cup {<<"1", "/", "T">>}

CombineTallies == {Dimensions(s) : s \in CombineNotations}

\* What Dimensions(string) gives the caller: the tally, or the error raised.
Parsed(string, err) ==
    IF IsExc(err) THEN err ELSE Tally(Dimensions(string))

Printed(s) == [t |-> "text", v |-> s]

DimStep(name, a, b, res) ==
    /\ last = Idle
    /\ last' = Op(name, a, b, res)
    /\ UNCHANGED <<x, namespace, dims, ops>>

BoundedStep(name, a, b, d) ==
    /\ InBounds(d)
    /\ DimStep(name, a, b, Tally(d))

InitDim ==
    /\ namespace = Defined
    /\ x = PyInt(1)
    /\ dims = Dimensions(<<>>)
    /\ last = Idle
    /\ ops = 0

\* Dimensions(s).  A parse reads nothing of the tally held, so it is taken
\* from the initial tally only.
Parse ==
    \E s \in DimNotations :
        /\ dims = Dimensions(<<>>)
        /\ DimStep("parse", Text(s), NoArg, Parsed(s, DimensionsError(s)))

\* dims + other
Combine ==
    \E other \in CombineTallies :
        BoundedStep("combine", Tally(dims), Tally(other), DimAdd(dims, other))

\* dims * p
Scale ==
    \E p \in Powers :
        BoundedStep("scale", Tally(dims), p, DimMul(dims, p))

ReparseOf(string) ==
    DimStep("reparse", Tally(dims), Text(string),
            Parsed(string, DimensionsError(string)))

\* Dimensions(str(dims))
Reparse == ReparseOf(Str(dims))

\* dims.pretty
PrettyPrint == DimStep("pretty", Tally(dims), NoArg, Printed(Pretty(dims)))

\* User code keeps the tally returned.
KeepTally ==
    /\ last # Idle
    /\ last.res.t = "Dimensions"
    /\ dims' = last.res.v
    /\ last' = Idle
    /\ UNCHANGED <<x, namespace, ops>>

NextDim ==
    \/ Parse
    \/ Combine
    \/ Scale
    \/ Reparse
    \/ PrettyPrint
    \/ KeepTally
    \/ Drop

SpecDim == InitDim /\ [][NextDim]_vars

(***************************************************************************)
(* define() on the caller's namespace: user code binds names of its own    *)
(* and calls define(namespace).                                            *)
(***************************************************************************)
UserSymbols == {"x", "kg", "C", "R", "cm"}

UserValues == {PyInt(7)}

InitDefine ==
    /\ namespace = EmptyNamespace
    /\ x = PyInt(1)
    /\ dims = Dimensions(<<>>)
    /\ last = Idle
    /\ ops = 0

\* namespace[sym] = v in user code
Bind ==
    \E sym \in UserSymbols, v \in UserValues :
        /\ namespace' = Update(namespace, [k \in {sym} |-> v])
        /\ last' = Op("bind", Printed(sym), v, NoExc)
        /\ UNCHANGED <<x, dims, ops>>

\* define(namespace): last keeps the namespace as it was
CallDefine ==
    /\ namespace' = Define(namespace)
    /\ last' = Op("define", Names(namespace), NoArg, DefineError(namespace))
    /\ UNCHANGED <<x, dims, ops>>

NextDefine ==
    \/ Bind
    \/ CallDefine

SpecDefine == InitDefine /\ [][NextDefine]_vars

(***************************************************************************)
(* Properties of the Measurement operations (under Spec).                  *)
(***************************************************************************)
\* The dimension vector of a value: a bare number is dimensionless.
DimOf(v) == IF IsMeas(v) THEN v.dimensions ELSE Zero

Dimensionless(v) == IsMeas(v) /\ v.dimensions = Zero

BothMeasurements == IsMeas(last.a) /\ IsMeas(last.b)

SameDimensions == last.a.dimensions = last.b.dimensions

\* C1: no value held or returned is a wrapped Quantity whose dimension
\* vector is all zeros: every operation, construction from a notation
\* included, hands back the bare payload instead.
NoWrappedDimensionless == ~Dimensionless(x) /\ ~Dimensionless(last.res)

\* C2: adding, subtracting, comparing or asserting the unit of two
\* Quantities of different dimensions raises the unit-mismatch error, which
\* carries both dimension vectors.
MismatchRaisesUnitError ==
    /\ last.name \in {"add", "sub", "call"} \cup Relations
    /\ BothMeasurements
    /\ ~SameDimensions
    => last.res = UnitError(Str(last.a.dimensions), Str(last.b.dimensions))

\* C3 as stated: a(target) returns a value exactly when the dimensions are
\* equal, and the value is the bare ratio a.payload / target.payload.
AssertUnitReturnsRatio ==
    last.name = "call" /\ BothMeasurements
    => /\ IsValue(last.res) <=> SameDimensions
       /\ IsValue(last.res)
          => /\ IsNumber(last.res)
             /\ NumEq(last.res, NumDiv(last.a.quantity, last.b.quantity))

\* The factor __call__ multiplies by: target.payload ** -1, and the int 1
\* for the payload 1 of a unit.
Reciprocal(q) == IF q = PyInt(1) THEN PyInt(1) ELSE NumPow(q, PyInt(-1))

\* C3 amended: for a target of non-zero payload a(target) returns a value
\* exactly when the dimensions are equal; the value is the bare number
\* a.payload * (target.payload ** -1); a target of payload zero raises
\* ZeroDivisionError.
AssertUnitChecksDimensions ==
    last.name = "call" /\ BothMeasurements
    => /\ last.b.quantity.m # 0 => (IsValue(last.res) <=> SameDimensions)
       /\ last.b.quantity.m = 0 => last.res = Exc("ZeroDivisionError", <<>>)
       /\ IsValue(last.res)
          => last.res = NumMul(last.a.quantity, Reciprocal(last.b.quantity))

\* a(target) with equal dimensions returned a ratio that is no integer.
AssertUnitReturned ==
    /\ last.name = "call"
    /\ BothMeasurements
    /\ SameDimensions
    /\ last.b.quantity # PyInt(1)
    /\ IsNumber(last.res)
    /\ last.res.t = "float"
    /\ last.res.e < 0

\* C4: a + b and a - b of Quantities of equal dimensions return the payload
\* a.payload + b.payload (a.payload - b.payload) with the dimensions of a,
\* wrapped whatever the payload, zero included; a - b is a + (b * -1).
AddKeepsDimensions ==
    /\ last.name \in {"add", "sub"} /\ BothMeasurements /\ SameDimensions
       => /\ IsValue(last.res)
          /\ NumEq(Payload(last.res),
                   IF last.name = "add"
                   THEN NumAdd(last.a.quantity, last.b.quantity)
                   ELSE NumSub(last.a.quantity, last.b.quantity))
          /\ DimOf(last.res) = last.a.dimensions
          /\ last.a.dimensions # Zero => IsMeas(last.res)
    /\ last.name = "sub" /\ BothMeasurements
       => last.res = MeasAdd(last.a, PyMul(last.b, PyInt(-1)))

VoltAmpere == PyMul(Defined["V"], PyMul(PyInt(1), Defined["A"]))

JoulePerSecond == PyDiv(Defined["J"], Defined["s"])

\* C5: a comparison of Quantities of equal dimensions is the numeric
\* comparison of their payloads, and V * (1 A) == J / s is true.
CompareIsNumeric ==
    /\ last.name \in Relations /\ BothMeasurements /\ SameDimensions
       => last.res = Bool(NumCmp(last.name, last.a.quantity, last.b.quantity))
    /\ last.name = "eq" /\ last.a = VoltAmpere /\ last.b = JoulePerSecond
       => last.res = Bool(TRUE)

\* V * A has been compared equal to J / s.
VoltAmpereCompared ==
    /\ last.name = "eq"
    /\ last.a = VoltAmpere
    /\ last.b = JoulePerSecond
    /\ last.res = Bool(TRUE)

\* C6: a * b has the product of the payloads and the sum of the dimension
\* vectors, a bare number on either side counting as dimensionless; a / b is
\* a * (b ** -1), with the difference of the dimension vectors.
MultiplyComposes ==
    /\ last.name = "mul"
       => /\ IsValue(last.res)
          /\ Payload(last.res) = NumMul(Payload(last.a), Payload(last.b))
          /\ DimOf(last.res) =
                 [k \in KeySet |-> DimOf(last.a)[k] + DimOf(last.b)[k]]
    /\ last.name = "div"
       => /\ last.res = TimesInverse(last.a, PyPow(last.b, PyInt(-1)))
          /\ IsValue(last.res)
             => DimOf(last.res) =
                    [k \in KeySet |-> DimOf(last.a)[k] - DimOf(last.b)[k]]

\* A quotient of two Quantities of different dimensions and of a payload
\* other than 1.
QuotientWrapped ==
    /\ last.name = "div"
    /\ BothMeasurements
    /\ ~SameDimensions
    /\ last.b.quantity # PyInt(1)
    /\ IsMeas(last.res)
    /\ \E k \in KeySet : last.res.dimensions[k] < 0

(***************************************************************************)
(* Properties of Dimensions (under SpecDim) and of define (SpecDefine).    *)
(***************************************************************************)
\* Whether the number v is no integer: a float is m * 2^e with m odd.
Fractional(v) == v.t = "float" /\ v.e < 0

\* C7: scaling a dimension vector by a power that leaves some exponent
\* non-integer fails with an error; no exponent is ever truncated.
ScaleRejectsFractions ==
    /\ last.name = "scale"
    /\ \E k \in KeySet : Fractional(NumMul(PyInt(last.a.v[k]), last.b))
    => IsExc(last.res)

\* C8: define(namespace) fails with a collision error, changing nothing,
\* when the namespace binds any symbol it would introduce (base unit,
\* derived unit or constant); otherwise it only adds bindings.
DefineNeverOverwrites ==
    last.name = "define"
    => IF (UnitSymbols \cup ConstantSymbols) \cap DOMAIN last.a.v # {}
       THEN IsExc(last.res) /\ namespace = last.a.v
       ELSE /\ last.res = NoExc
            /\ DOMAIN namespace =
                   DOMAIN last.a.v \cup UnitSymbols \cup ConstantSymbols
            /\ \A sym \in DOMAIN last.a.v : namespace[sym] = last.a.v[sym]

\* C9: parsing the canonical string of a dimension vector gives the vector
\* back, the dimensionless "1" and the negative-only "1/..." included.
ParseUndoesStr == last.name = "reparse" => last.res = last.a

\* A vector of negative exponents only has been printed and parsed back.
NegativeOnlyReparsed ==
    /\ last.name = "reparse"
    /\ \A k \in KeySet : last.a.v[k] <= 0
    /\ \E k \in KeySet : last.a.v[k] < 0
    /\ Head(last.b.v) = "1"
    /\ last.res = last.a

\* The arrangements of the keys of non-zero exponent.
Orders(d) ==
    LET nonzero == {k \in KeySet : d[k] # 0}
    IN  {f \in [1..Cardinality(nonzero) -> nonzero] :
            \A i, j \in DOMAIN f : i # j => f[i] # f[j]}

\* Positive exponents first, ascending; then the negative ones, the closest
\* to zero first.
InPrettyOrder(f, d) ==
    \A i, j \in DOMAIN f :
        i < j => \/ d[f[i]] > 0 /\ d[f[j]] < 0
                 \/ d[f[i]] > 0 /\ d[f[j]] > 0 /\ d[f[i]] <= d[f[j]]
                 \/ d[f[i]] < 0 /\ d[f[j]] < 0 /\ d[f[i]] >= d[f[j]]

Factor(k, d) ==
    IF d[k] = 1 THEN BASE[k] ELSE BASE[k] \o superscript(d[k])

\* C10: pretty gives the symbol of the derived unit when the canonical
\* string is in the DERIVED table; otherwise the base symbols of non-zero
\* exponent joined by ".", positive exponents first in ascending order, then
\* negative ones closest to zero first, an exponent of 1 left unwritten.
PrettyOrder ==
    last.name = "pretty"
    => IF Str(last.a.v) \in DOMAIN DERIVED
       THEN last.res.v = DERIVED[Str(last.a.v)]
       ELSE \E f \in Orders(last.a.v) :
                /\ InPrettyOrder(f, last.a.v)
                /\ last.res.v = Join(".", [i \in DOMAIN f |-> Factor(f[i], last.a.v)])

\* A vector that is no derived unit, with two positive exponents that
\* differ and a negative one, has been printed.
MixedVectorPrinted ==
    /\ last.name = "pretty"
    /\ Str(last.a.v) \notin DOMAIN DERIVED
    /\ \E j, k \in KeySet : 0 < last.a.v[j] /\ last.a.v[j] < last.a.v[k]
    /\ \E k \in KeySet : last.a.v[k] < 0

=============================================================================
